---- MODULE Spec2Model ----
(***************************************************************************)
(* Model of examples/main.go: main spawns `runs` goroutines running        *)
(* resize(i), each of which acquires the input bytes (local file or        *)
(* remote URL), detects the format, reads the header, resolves the target  *)
(* geometry into the package-level outputWidth/outputHeight, transforms    *)
(* and writes the output file.  Deferred calls run LIFO at return.         *)
(***************************************************************************)
EXTENDS Integers, Sequences, FiniteSets, TLC

\* Largest value of the -runs flag explored.
MaxRuns == 2

Workers == 0 .. (MaxRuns - 1)

Nil == "nil"

(***************************************************************************)
(* Strings are sequences of one-character strings, so that fmt.Sprint,     *)
(* filepath.Ext and strings.ToLower are computed as the library computes   *)
(* them.                                                                   *)
(***************************************************************************)
EmptyString == << >>

DigitChars == <<"0", "1", "2", "3", "4", "5", "6", "7", "8", "9">>

RECURSIVE Itoa(_)
Itoa(n) ==
    IF n < 10 THEN <<DigitChars[n + 1]>>
    ELSE Itoa(n \div 10) \o <<DigitChars[(n % 10) + 1]>>

\* The name without the index.
SprintNoIndex(i, sep, name) == sep \o name
\* fmt.Sprint(i, "-", name): no space is inserted next to a string operand.
Sprint(i, sep, name) == Itoa(i) \o sep \o name

\* filepath.Ext: the suffix beginning at the final dot of the final path
\* element, empty if there is none.
RECURSIVE ExtFrom(_, _)
ExtFrom(path, i) ==
    IF i < 1 \/ path[i] = "/" THEN EmptyString
    ELSE IF path[i] = "." THEN SubSeq(path, i, Len(path))
    ELSE ExtFrom(path, i - 1)

Ext(path) == ExtFrom(path, Len(path))

LowerChar(c) ==
    CASE c = "J" -> "j" [] c = "P" -> "p" [] c = "E" -> "e" [] c = "G" -> "g"
      [] c = "N" -> "n" [] OTHER -> c

ToLower(s) == [k \in 1 .. Len(s) |-> LowerChar(s[k])]

(***************************************************************************)
(* The environment: the bytes an acquisition can deliver.  A blob is       *)
(* described by what the codec library will make of it: the format its     *)
(* magic bytes announce (empty when unrecognised), whether its header      *)
(* parses, and the header's dimensions.                                    *)
(***************************************************************************)
JpegImage ==
    [desc |-> <<"J", "P", "E", "G">>, valid |-> TRUE, width |-> 4000, height |-> 3000,
     html |-> FALSE, nil |-> FALSE]
PngImage ==
    [desc |-> <<"P", "N", "G">>, valid |-> TRUE, width |-> 500, height |-> 500, html |-> FALSE, nil |-> FALSE]
CorruptImage ==
    [desc |-> <<"P", "N", "G">>, valid |-> FALSE, width |-> 0, height |-> 0, html |-> FALSE, nil |-> FALSE]
Garbage ==
    [desc |-> EmptyString, valid |-> FALSE, width |-> 0, height |-> 0, html |-> FALSE, nil |-> FALSE]
\* The body of an HTTP error response (an HTML page): no image magic.
ErrorPage ==
    [desc |-> EmptyString, valid |-> FALSE, width |-> 0, height |-> 0, html |-> TRUE, nil |-> FALSE]

Blobs == {JpegImage, PngImage, CorruptImage, Garbage}

\* Zero values of the Go variables (nil slices and pointers, empty structs).
NoBytes ==
    [desc |-> EmptyString, valid |-> FALSE, width |-> 0, height |-> 0, html |-> FALSE, nil |-> TRUE]
NoResponse == [status |-> 0, closes |-> 0]
NoDecoder == [blob |-> NoBytes, open |-> FALSE, closes |-> 0]
NoHeader == [width |-> 0, height |-> 0]
NoImageOps == [size |-> 0, open |-> FALSE, closes |-> 0]
NoOpts == [FileType |-> EmptyString, Width |-> 0, Height |-> 0, ResizeMethod |-> Nil,
           NormalizeOrientation |-> FALSE, EncodeOptions |-> {}]

\* What the file named by -input holds, if it can be read at all.
NoFile == [exists |-> FALSE, bytes |-> NoBytes]
InputFiles == {NoFile} \cup {[exists |-> TRUE, bytes |-> b] : b \in Blobs}

\* Values of the command-line flags explored.
InputNames  == {EmptyString, <<"a", ".", "j", "p", "g">>}
RemoteNames == {EmptyString, <<"h", "/", "i">>}
OutputNames == {EmptyString, <<"o", ".", "p", "n", "g">>}
\* -width, -height and -stretch
Requests ==
    { [width |-> 0, height |-> 0, stretch |-> FALSE],
      [width |-> 800, height |-> 0, stretch |-> FALSE],
      [width |-> 300, height |-> 600, stretch |-> FALSE],
      [width |-> 300, height |-> 600, stretch |-> TRUE],
      [width |-> 0, height |-> 600, stretch |-> TRUE],
      [width |-> 9000, height |-> 600, stretch |-> FALSE] }

\* The package-level table of encode options (main.go:17-21).
\* A map[int]int of options is the set of its (key, value) pairs.
EncodeOptionsTable ==
    (<<".", "j", "p", "e", "g">> :> {<<"JpegQuality", 85>>})
    @@ (<<".", "p", "n", "g">> :> {<<"PngCompression", 7>>})
    @@ (<<".", "w", "e", "b", "p">> :> {<<"WebpQuality", 85>>})

\* A Go map read: the zero value (a nil map, no options) for a missing key.
NoOptions == {}
\* A read that falls back on the first entry of the table.
MapLookupOrJpeg(m, k) ==
    IF k \in DOMAIN m THEN m[k] ELSE m[<<".", "j", "p", "e", "g">>]
MapLookup(m, k) == IF k \in DOMAIN m THEN m[k] ELSE NoOptions

VARIABLES
    inputFilename, remoteInput, outputFilename, \* flags, read-only after Parse
    outputWidth, outputHeight,                  \* flags, written by resize
    stretch, runs,
    EncodeOptions,                              \* package-level table
    wg,                                         \* sync.WaitGroup counter
    mainPc, mainI,                              \* main's position and loop index
    files, inputFile,                           \* the file system
    pc, defers,                                 \* per goroutine: position, deferred calls
    inputBuf, decoder, header, ops, outputImg,
    outputType, outFilename, opts, written,
    resp, rerr, body, rdefers,                  \* readRemoteURL's frame
    flagWidth, flagHeight,                      \* the flags as parsed (history)
    readers, writers,                           \* who accessed outputWidth/outputHeight
    log                                         \* per goroutine: the calls made, in order

globals == <<inputFilename, remoteInput, outputFilename, stretch, runs,
             EncodeOptions, inputFile, flagWidth, flagHeight>>
geometry == <<outputWidth, outputHeight, readers, writers>>
mainVars == <<mainPc, mainI>>
remote == <<resp, rerr, body, rdefers>>
locals == <<inputBuf, decoder, header, ops, outputImg, outputType,
            outFilename, opts, written>>

vars == <<globals, geometry, mainVars, remote, locals, wg, files, pc, defers, log>>

Event(op, ok) == <<op, ok>>

Logged(w, op, ok) == [log EXCEPT ![w] = Append(@, Event(op, ok))]

\* The files that may exist before the run: none, or the first goroutine's
\* destination when -output is given.
PreExisting(output) ==
    IF output = EmptyString THEN {{}} ELSE {{}, {Sprint(0, <<"-">>, output)}}

Init ==
    /\ inputFilename \in InputNames
    /\ remoteInput \in RemoteNames
    /\ outputFilename \in OutputNames
    /\ \E r \in Requests :
         /\ outputWidth = r.width
         /\ outputHeight = r.height
         /\ stretch = r.stretch
    /\ runs \in 0 .. MaxRuns
    /\ EncodeOptions = EncodeOptionsTable
    /\ wg = 0
    /\ mainPc = "L44"
    /\ mainI = 0
    /\ files \in PreExisting(outputFilename)
    /\ inputFile \in (IF inputFilename = EmptyString THEN {NoFile} ELSE InputFiles)
    /\ pc = [w \in Workers |-> "unspawned"]
    /\ defers = [w \in Workers |-> << >>]
    /\ inputBuf = [w \in Workers |-> NoBytes]
    /\ decoder = [w \in Workers |-> NoDecoder]
    /\ header = [w \in Workers |-> NoHeader]
    /\ ops = [w \in Workers |-> NoImageOps]
    /\ outputImg = [w \in Workers |-> 0]
    /\ outputType = [w \in Workers |-> EmptyString]
    /\ outFilename = [w \in Workers |-> EmptyString]
    /\ opts = [w \in Workers |-> NoOpts]
    /\ written = [w \in Workers |-> EmptyString]
    /\ resp = [w \in Workers |-> NoResponse]
    /\ rerr = [w \in Workers |-> Nil]
    /\ body = [w \in Workers |-> NoBytes]
    /\ rdefers = [w \in Workers |-> << >>]
    /\ flagWidth = outputWidth
    /\ flagHeight = outputHeight
    /\ readers = [v \in {"outputWidth", "outputHeight"} |-> {}]
    /\ writers = [v \in {"outputWidth", "outputHeight"} |-> {}]
    /\ log = [w \in Workers |-> << >>]

(***************************************************************************)
(* main (main.go:44-48)                                                    *)
(***************************************************************************)
\* main.go:44: the loop test i < runs
LoopTest(i) == IF i < runs THEN "L45" ELSE "L48"

\* main.go:44: for i := 0; i < runs
LoopEnter ==
    /\ mainPc = "L44"
    /\ mainPc' = LoopTest(mainI)
    /\ UNCHANGED <<globals, geometry, mainI, remote, locals, wg, files, pc, defers, log>>

\* main.go:45: wg.Add(1)
WgAdd ==
    /\ mainPc = "L45"
    /\ wg' = wg + 1
    /\ mainPc' = "L46"
    /\ UNCHANGED <<globals, geometry, mainI, remote, locals, files, pc, defers, log>>

\* main.go:46, 44: go resize(i); i++; i < runs
GoResize ==
    /\ mainPc = "L46"
    /\ pc' = [pc EXCEPT ![mainI] = "L52"]
    /\ mainI' = mainI + 1
    /\ mainPc' = LoopTest(mainI + 1)
    /\ UNCHANGED <<globals, geometry, remote, locals, wg, files, defers, log>>

\* wg.Wait() returns once the counter is zero; main returns.
WgWait ==
    /\ mainPc = "L48"
    /\ wg = 0
    /\ mainPc' = "returned"
    /\ UNCHANGED <<globals, geometry, mainI, remote, locals, wg, files, pc, defers, log>>

\* Deferred calls run in the order of their defer statements.
DeferFirstInFirstOut(stack, call) == stack \o <<call>>
\* A defer statement: the call goes on top of the frame's stack of deferred
\* calls, which run last-in first-out when the function returns.
Defer(stack, call) == <<call>> \o stack

(***************************************************************************)
(* resize(i) (main.go:51-166).  A return statement moves the goroutine to  *)
(* "return", where its deferred calls run last-in first-out.               *)
(***************************************************************************)
\* The usage message without its return.
UsageFallsThrough(in, url) == "L63"
\* main.go:56-60: where resize goes after the usage check
AfterUsageCheck(in, url) ==
    IF in = EmptyString /\ url = EmptyString THEN "return" ELSE "L63"

\* main.go:52-60: defer wg.Done(); the local outputFilename; the usage check.
Start(w) ==
    /\ pc[w] = "L52"
    /\ defers' = [defers EXCEPT ![w] = Defer(@, "wg.Done")]
    /\ outFilename' = [outFilename EXCEPT ![w] = Sprint(w, <<"-">>, outputFilename)]
    /\ pc' = [pc EXCEPT ![w] = AfterUsageCheck(inputFilename, remoteInput)]
    /\ log' = IF inputFilename = EmptyString /\ remoteInput = EmptyString
              THEN Logged(w, "usage", FALSE)
              ELSE log
    /\ UNCHANGED <<globals, geometry, mainVars, remote, wg, files,
                   inputBuf, decoder, header, ops, outputImg, outputType, opts, written>>

\* main.go:63-69: ioutil.ReadFile(inputFilename)
ReadFile(w) ==
    /\ pc[w] = "L63"
    /\ inputFilename # EmptyString
    /\ IF inputFile.exists
       THEN /\ inputBuf' = [inputBuf EXCEPT ![w] = inputFile.bytes]
            /\ pc' = [pc EXCEPT ![w] = "L80"]
            /\ log' = Logged(w, "ReadFile", TRUE)
       ELSE /\ inputBuf' = inputBuf
            /\ pc' = [pc EXCEPT ![w] = "return"]
            /\ log' = Logged(w, "ReadFile", FALSE)
    /\ UNCHANGED <<globals, geometry, mainVars, remote, wg, files, defers,
                   decoder, header, ops, outputImg, outputType, outFilename, opts, written>>

\* The (resp, err) pairs client.Get can return: a response of any status
\* without error, a transport error without response, or both (a redirect
\* policy failure).
GetOutcomes ==
    { [resp |-> [status |-> 200, closes |-> 0], err |-> Nil],
      [resp |-> [status |-> 404, closes |-> 0], err |-> Nil],
      [resp |-> NoResponse, err |-> "transport"],
      [resp |-> [status |-> 302, closes |-> 0], err |-> "redirect"] }

\* The close deferred only once the error was ruled out.
DeferBodyCloseAfterErrCheck(r) ==
    IF r.err = Nil THEN <<"resp.Body.Close">> ELSE << >>
\* main.go:170-172: if resp != nil { defer resp.Body.Close() }
DeferBodyClose(r) == IF r.resp # NoResponse THEN <<"resp.Body.Close">> ELSE << >>

\* The remote URL fetched whenever it is given.
FetchesWheneverGiven(in, url) == url # EmptyString
\* main.go:63, 70: the else-if branch that fetches the remote URL
FetchesRemote(in, url) == in = EmptyString /\ url # EmptyString

\* main.go:70-73, 169-176: readRemoteURL is entered, client.Get(url) returns,
\* the close of the body is deferred, and an error returns at once.
ClientGet(w) ==
    /\ pc[w] = "L63"
    /\ FetchesRemote(inputFilename, remoteInput)
    /\ \E r \in GetOutcomes :
         /\ resp' = [resp EXCEPT ![w] = r.resp]
         /\ rerr' = [rerr EXCEPT ![w] = r.err]
         /\ rdefers' = [rdefers EXCEPT ![w] = DeferBodyClose(r)]
         /\ pc' = [pc EXCEPT ![w] = IF r.err # Nil THEN "rreturn" ELSE "L177"]
         /\ log' = Logged(w, "Get", r.err = Nil)
    /\ UNCHANGED <<globals, geometry, mainVars, body, locals, wg, files, defers>>

\* What the body of a response holds.
BodiesOf(r) == IF r.status = 200 THEN Blobs ELSE {ErrorPage}

\* main.go:177-182: ioutil.ReadAll(resp.Body)
ReadAll(w) ==
    /\ pc[w] = "L177"
    /\ \/ \E b \in BodiesOf(resp[w]) :
            /\ body' = [body EXCEPT ![w] = b]
            /\ rerr' = rerr
            /\ log' = Logged(w, "ReadAll", TRUE)
       \/ /\ body' = body
          /\ rerr' = [rerr EXCEPT ![w] = "read"]
          /\ log' = Logged(w, "ReadAll", FALSE)
    /\ pc' = [pc EXCEPT ![w] = "rreturn"]
    /\ UNCHANGED <<globals, geometry, mainVars, resp, rdefers, locals, wg, files, defers>>

\* readRemoteURL returns: the deferred resp.Body.Close() runs.
DeferredBodyClose(w) ==
    /\ pc[w] = "rreturn"
    /\ rdefers[w] # << >>
    /\ Head(rdefers[w]) = "resp.Body.Close"
    /\ resp' = [resp EXCEPT ![w].closes = @ + 1]
    /\ rdefers' = [rdefers EXCEPT ![w] = Tail(@)]
    /\ log' = Logged(w, "Body.Close", TRUE)
    /\ UNCHANGED <<globals, geometry, mainVars, rerr, body, locals, wg, files, pc, defers>>

\* main.go:73-77: back in resize with (inputBuf, err)
ReadRemoteURLReturn(w) ==
    /\ pc[w] = "rreturn"
    /\ rdefers[w] = << >>
    /\ IF rerr[w] = Nil
       THEN /\ inputBuf' = [inputBuf EXCEPT ![w] = body[w]]
            /\ pc' = [pc EXCEPT ![w] = "L80"]
       ELSE /\ inputBuf' = inputBuf
            /\ pc' = [pc EXCEPT ![w] = "return"]
    /\ log' = Logged(w, "readRemoteURL", rerr[w] = Nil)
    /\ UNCHANGED <<globals, geometry, mainVars, remote, wg, files, defers,
                   decoder, header, ops, outputImg, outputType, outFilename, opts, written>>

\* lilliput.NewDecoder succeeds when the magic bytes name a known format.
Recognized(blob) == blob.desc # EmptyString

\* The decoder left open.
DeferNothing(stack) == stack
\* main.go:87: defer decoder.Close()
DeferDecoderClose(stack) == Defer(stack, "decoder.Close")

\* main.go:80-87: NewDecoder(inputBuf); defer decoder.Close()
NewDecoder(w) ==
    /\ pc[w] = "L80"
    /\ IF Recognized(inputBuf[w])
       THEN /\ decoder' = [decoder EXCEPT ![w] = [blob |-> inputBuf[w], open |-> TRUE, closes |-> 0]]
            /\ defers' = [defers EXCEPT ![w] = DeferDecoderClose(@)]
            /\ pc' = [pc EXCEPT ![w] = "L89"]
            /\ log' = Logged(w, "NewDecoder", TRUE)
       ELSE /\ decoder' = decoder
            /\ defers' = defers
            /\ pc' = [pc EXCEPT ![w] = "return"]
            /\ log' = Logged(w, "NewDecoder", FALSE)
    /\ UNCHANGED <<globals, geometry, mainVars, remote, wg, files,
                   inputBuf, header, ops, outputImg, outputType, outFilename, opts, written>>

\* The header error reported without its return.
HeaderErrorIgnored(valid) == "L107"
\* main.go:92-95: where resize goes after decoder.Header()
AfterHeader(valid) == IF valid THEN "L107" ELSE "return"

\* main.go:89-103: decoder.Header()
Header(w) ==
    /\ pc[w] = "L89"
    /\ IF decoder[w].blob.valid
       THEN /\ header' = [header EXCEPT ![w] =
                   [width |-> decoder[w].blob.width, height |-> decoder[w].blob.height]]
            /\ log' = Logged(w, "Header", TRUE)
       ELSE /\ header' = header
            /\ log' = Logged(w, "Header", FALSE)
    /\ pc' = [pc EXCEPT ![w] = AfterHeader(decoder[w].blob.valid)]
    /\ UNCHANGED <<globals, geometry, mainVars, remote, wg, files, defers,
                   inputBuf, decoder, ops, outputImg, outputType, outFilename, opts, written>>

\* main.go:107: the maximum resize buffer dimension
MaxDimension == 8192
\* main.go:111: make([]byte, 50*1024*1024)
OutputBufferSize == 50 * 1024 * 1024

\* main.go:115-118: the output type is the decoder's format unless the
\* (local) outputFilename is non-empty, and then that name's extension.
OutputTypeOf(desc, name) ==
    IF name # EmptyString THEN Ext(name) ELSE <<".">> \o ToLower(desc)

\* A scratch buffer as large as the source claims to be.
ScratchFromHeader(h) == IF h.width > h.height THEN h.width ELSE h.height
\* main.go:107: the dimension given to NewImageOps, whatever the header says
ScratchDimension(h) == MaxDimension

\* main.go:107-118: NewImageOps(8192); defer ops.Close(); the output buffer;
\* the output type.
NewImageOps(w) ==
    /\ pc[w] = "L107"
    /\ ops' = [ops EXCEPT ![w] =
                  [size |-> ScratchDimension(header[w]), open |-> TRUE, closes |-> 0]]
    /\ defers' = [defers EXCEPT ![w] = Defer(@, "ops.Close")]
    /\ outputImg' = [outputImg EXCEPT ![w] = OutputBufferSize]
    /\ outputType' = [outputType EXCEPT ![w] =
                         OutputTypeOf(decoder[w].blob.desc, outFilename[w])]
    /\ pc' = [pc EXCEPT ![w] = "L120"]
    /\ log' = Logged(w, "NewImageOps", TRUE)
    /\ UNCHANGED <<globals, geometry, mainVars, remote, wg, files,
                   inputBuf, decoder, header, outFilename, opts, written>>

\* The test inverted.
UnsetInverted(dimension) == dimension # 0
\* The test of main.go:120 and main.go:124.
Unset(dimension) == dimension = 0

Read(v, w) == [readers EXCEPT ![v] = @ \cup {w}]
Write(v, w) == [writers EXCEPT ![v] = @ \cup {w}]

\* main.go:120: if outputWidth == 0
CheckWidth(w) ==
    /\ pc[w] = "L120"
    /\ readers' = Read("outputWidth", w)
    /\ pc' = [pc EXCEPT ![w] = IF Unset(outputWidth) THEN "L121" ELSE "L124"]
    /\ log' = Logged(w, "resolve", TRUE)
    /\ UNCHANGED <<globals, outputWidth, outputHeight, writers, mainVars, remote,
                   locals, wg, files, defers>>

\* main.go:121: outputWidth = header.Width()
SetWidth(w) ==
    /\ pc[w] = "L121"
    /\ outputWidth' = header[w].width
    /\ writers' = Write("outputWidth", w)
    /\ pc' = [pc EXCEPT ![w] = "L124"]
    /\ UNCHANGED <<globals, outputHeight, readers, mainVars, remote,
                   locals, wg, files, defers, log>>

\* main.go:124: if outputHeight == 0
CheckHeight(w) ==
    /\ pc[w] = "L124"
    /\ readers' = Read("outputHeight", w)
    /\ pc' = [pc EXCEPT ![w] = IF Unset(outputHeight) THEN "L125" ELSE "L133"]
    /\ UNCHANGED <<globals, outputWidth, outputHeight, writers, mainVars, remote,
                   locals, wg, files, defers, log>>

\* The height that keeps the source's aspect ratio at the given width.
AspectHeight(h, width) == (h.height * width) \div h.width
\* main.go:125: the height that replaces an unset outputHeight
DefaultHeight(h, width) == h.height

\* main.go:125: outputHeight = header.Height()
SetHeight(w) ==
    /\ pc[w] = "L125"
    /\ outputHeight' = DefaultHeight(header[w], outputWidth)
    /\ writers' = Write("outputHeight", w)
    /\ pc' = [pc EXCEPT ![w] = "L133"]
    /\ UNCHANGED <<globals, outputWidth, readers, mainVars, remote,
                   locals, wg, files, defers, log>>

\* main.go:128-131
ResizeMethodOf(stretchFlag) == IF stretchFlag THEN "ImageOpsResize" ELSE "ImageOpsFit"

\* main.go:133-135: the options literal up to Width, which reads outputWidth
OptsWidth(w) ==
    /\ pc[w] = "L133"
    /\ readers' = Read("outputWidth", w)
    /\ opts' = [opts EXCEPT ![w].FileType = outputType[w], ![w].Width = outputWidth]
    /\ pc' = [pc EXCEPT ![w] = "L136"]
    /\ UNCHANGED <<globals, outputWidth, outputHeight, writers, mainVars, remote, wg, files,
                   defers, log, inputBuf, decoder, header, ops, outputImg, outputType,
                   outFilename, written>>

\* main.go:136-140: the rest of the literal, which reads outputHeight
OptsHeight(w) ==
    /\ pc[w] = "L136"
    /\ readers' = Read("outputHeight", w)
    /\ opts' = [opts EXCEPT ![w].Height = outputHeight,
                            ![w].ResizeMethod = ResizeMethodOf(stretch),
                            ![w].NormalizeOrientation = TRUE,
                            ![w].EncodeOptions = MapLookup(EncodeOptions, outputType[w])]
    /\ pc' = [pc EXCEPT ![w] = "L143"]
    /\ UNCHANGED <<globals, outputWidth, outputHeight, writers, mainVars, remote, wg, files,
                   defers, log, inputBuf, decoder, header, ops, outputImg, outputType,
                   outFilename, written>>

\* main.go:143-147: ops.Transform(decoder, opts, outputImg) succeeds or fails
\* inside the codec library.
Transform(w) ==
    /\ pc[w] = "L143"
    /\ \E ok \in BOOLEAN :
         /\ pc' = [pc EXCEPT ![w] = IF ok THEN "L150" ELSE "return"]
         /\ log' = Logged(w, "Transform", ok)
    /\ UNCHANGED <<globals, geometry, mainVars, remote, locals, wg, files, defers>>

\* main.go:150-152
DestinationOf(name) ==
    IF name = EmptyString
    THEN <<"r", "e", "s", "i", "z", "e", "d">> \o Ext(inputFilename)
    ELSE name

\* The existence test without its return.
ExistingOverwritten(exists) == "L159"
\* main.go:154-157: where resize goes after os.Stat of the destination
AfterStat(exists) == IF exists THEN "return" ELSE "L159"

\* main.go:150-157: the destination name; os.Stat of it
Stat(w) ==
    /\ pc[w] = "L150"
    /\ outFilename' = [outFilename EXCEPT ![w] = DestinationOf(@)]
    /\ pc' = [pc EXCEPT ![w] = AfterStat(DestinationOf(outFilename[w]) \in files)]
    /\ log' = Logged(w, "Stat", DestinationOf(outFilename[w]) \notin files)
    /\ UNCHANGED <<globals, geometry, mainVars, remote, wg, files, defers,
                   inputBuf, decoder, header, ops, outputImg, outputType, opts, written>>

\* main.go:159-165: ioutil.WriteFile creates the file and writes it; a
\* failure may come before or after the file was created.
WriteFile(w) ==
    /\ pc[w] = "L159"
    /\ \/ /\ files' = files \cup {outFilename[w]}
          /\ written' = [written EXCEPT ![w] = outFilename[w]]
          /\ log' = Logged(w, "WriteFile", TRUE)
       \/ /\ files' \in {files, files \cup {outFilename[w]}}
          /\ written' = written
          /\ log' = Logged(w, "WriteFile", FALSE)
    /\ pc' = [pc EXCEPT ![w] = "return"]
    /\ UNCHANGED <<globals, geometry, mainVars, remote, wg, defers,
                   inputBuf, decoder, header, ops, outputImg, outputType, outFilename, opts>>

\* The goroutine ends when its last deferred call has run.
AfterDeferred(w) == IF Tail(defers[w]) = << >> THEN "done" ELSE "return"

\* deferred at main.go:108: ops.Close()
DeferredOpsClose(w) ==
    /\ pc[w] = "return"
    /\ defers[w] # << >>
    /\ Head(defers[w]) = "ops.Close"
    /\ ops' = [ops EXCEPT ![w].open = FALSE, ![w].closes = @ + 1]
    /\ defers' = [defers EXCEPT ![w] = Tail(@)]
    /\ pc' = [pc EXCEPT ![w] = AfterDeferred(w)]
    /\ log' = Logged(w, "ops.Close", TRUE)
    /\ UNCHANGED <<globals, geometry, mainVars, remote, wg, files,
                   inputBuf, decoder, header, outputImg, outputType, outFilename, opts, written>>

\* deferred at main.go:87: decoder.Close()
DeferredDecoderClose(w) ==
    /\ pc[w] = "return"
    /\ defers[w] # << >>
    /\ Head(defers[w]) = "decoder.Close"
    /\ decoder' = [decoder EXCEPT ![w].open = FALSE, ![w].closes = @ + 1]
    /\ defers' = [defers EXCEPT ![w] = Tail(@)]
    /\ pc' = [pc EXCEPT ![w] = AfterDeferred(w)]
    /\ log' = Logged(w, "decoder.Close", TRUE)
    /\ UNCHANGED <<globals, geometry, mainVars, remote, wg, files,
                   inputBuf, header, ops, outputImg, outputType, outFilename, opts, written>>

\* deferred at main.go:53: wg.Done()
DeferredWgDone(w) ==
    /\ pc[w] = "return"
    /\ defers[w] # << >>
    /\ Head(defers[w]) = "wg.Done"
    /\ wg' = wg - 1
    /\ defers' = [defers EXCEPT ![w] = Tail(@)]
    /\ pc' = [pc EXCEPT ![w] = AfterDeferred(w)]
    /\ log' = Logged(w, "wg.Done", TRUE)
    /\ UNCHANGED <<globals, geometry, mainVars, remote, locals, files>>

Next ==
    \/ LoopEnter
    \/ WgAdd
    \/ GoResize
    \/ WgWait
    \/ \E w \in Workers : Start(w)
    \/ \E w \in Workers : ReadFile(w)
    \/ \E w \in Workers : ClientGet(w)
    \/ \E w \in Workers : ReadAll(w)
    \/ \E w \in Workers : DeferredBodyClose(w)
    \/ \E w \in Workers : ReadRemoteURLReturn(w)
    \/ \E w \in Workers : NewDecoder(w)
    \/ \E w \in Workers : Header(w)
    \/ \E w \in Workers : NewImageOps(w)
    \/ \E w \in Workers : CheckWidth(w)
    \/ \E w \in Workers : SetWidth(w)
    \/ \E w \in Workers : CheckHeight(w)
    \/ \E w \in Workers : SetHeight(w)
    \/ \E w \in Workers : OptsWidth(w)
    \/ \E w \in Workers : OptsHeight(w)
    \/ \E w \in Workers : Transform(w)
    \/ \E w \in Workers : Stat(w)
    \/ \E w \in Workers : WriteFile(w)
    \/ \E w \in Workers : DeferredOpsClose(w)
    \/ \E w \in Workers : DeferredDecoderClose(w)
    \/ \E w \in Workers : DeferredWgDone(w)

Spec == Init /\ [][Next]_vars

\* The Go scheduler runs a goroutine that can take a step, and every call
\* of the program returns: some enabled step is eventually taken.
FairSpec == Spec /\ WF_vars(Next)

(***************************************************************************)
(* Reading the log of a goroutine.                                         *)
(***************************************************************************)
Pos(w, op) == {k \in 1 .. Len(log[w]) : log[w][k][1] = op}
Happened(w, op) == Pos(w, op) # {}
Succeeded(w, op) == \E k \in 1 .. Len(log[w]) : log[w][k] = Event(op, TRUE)
Failed(w, op) == \E k \in 1 .. Len(log[w]) : log[w][k] = Event(op, FALSE)
Precedes(w, a, b) == \A i \in Pos(w, a), j \in Pos(w, b) : i < j

\* The pipeline step a logged call belongs to: 1 acquire, 2 detect, 3 read
\* header, 4 resolve geometry, 5 transform, 6 write output; 0 for the rest.
StepOf(op) ==
    CASE op \in {"ReadFile", "Get", "ReadAll", "Body.Close", "readRemoteURL"} -> 1
      [] op = "NewDecoder" -> 2
      [] op = "Header" -> 3
      [] op = "resolve" -> 4
      [] op = "Transform" -> 5
      [] op \in {"Stat", "WriteFile"} -> 6
      [] OTHER -> 0

IsStep(e) == StepOf(e[1]) > 0

\* The steps of goroutine w, in the order it made them.
Steps(w) == SelectSeq(log[w], IsStep)

\* The calls that end a step: the acquisition ends with ReadFile or with the
\* return of readRemoteURL, every other step is a single call (the write
\* step ends with WriteFile).
EndsStep(op) == op \notin {"Get", "ReadAll", "Body.Close", "Stat"}

\* C1: within one invocation the steps run in the order acquire, detect,
\* read header, resolve geometry, transform, write output; a step runs only
\* after every earlier step has succeeded; after a failing call no later
\* step runs; and a file is written only after a successful Transform.
C1_StrictSequence ==
    \A w \in Workers :
        LET st == Steps(w) IN
        /\ st # << >> => StepOf(st[1][1]) = 1
        /\ Failed(w, "usage") => st = << >>
        /\ \A k \in 1 .. (Len(st) - 1) :
              LET a == st[k]
                  b == st[k + 1]
              IN  /\ StepOf(a[1]) <= StepOf(b[1])
                  /\ StepOf(a[1]) < StepOf(b[1]) =>
                        /\ StepOf(b[1]) = StepOf(a[1]) + 1
                        /\ EndsStep(a[1])
                        /\ a[2]
                  /\ StepOf(a[1]) = StepOf(b[1]) => ~EndsStep(a[1])
                  /\ ~a[2] => StepOf(b[1]) = 1 /\ b[1] \in {"Body.Close", "readRemoteURL"}
                  /\ (~a[2] /\ b[1] = "readRemoteURL") => ~b[2]
        /\ (Happened(w, "WriteFile") \/ written[w] # EmptyString)
              => Succeeded(w, "Transform")

\* One goroutine went through every step and wrote its output while another
\* stopped at a corrupt header.
C1_Witness ==
    \E w, v \in Workers :
        /\ pc[w] = "done" /\ Succeeded(w, "WriteFile")
        /\ pc[v] = "done" /\ Failed(v, "Header")

\* C2: on every exit path after a successful detection the decoder has been
\* released exactly once when the invocation ends, it is never released
\* twice, and it is never released when detection failed or was not reached.
C2_DecoderReleasedOnce ==
    \A w \in Workers :
        /\ decoder[w].closes <= 1
        /\ decoder[w].closes = Cardinality(Pos(w, "decoder.Close"))
        /\ decoder[w].closes > 0 => Succeeded(w, "NewDecoder")
        /\ pc[w] = "done" =>
              decoder[w].closes = (IF Succeeded(w, "NewDecoder") THEN 1 ELSE 0)

\* One goroutine ended on a failure after its detection had succeeded and
\* released its decoder; another ended on a failed detection and did not.
C2_Witness ==
    \E w, v \in Workers :
        /\ pc[w] = "done" /\ decoder[w].closes = 1
        /\ \/ Failed(w, "Header")
           \/ Failed(w, "Transform")
           \/ Failed(w, "Stat")
           \/ Failed(w, "WriteFile")
        /\ pc[v] = "done" /\ Failed(v, "NewDecoder") /\ decoder[v].closes = 0

\* C3 as stated: once the output is written the decoder has already been
\* released, and the ImageOps is not released before the decoder.
C3_Original ==
    \A w \in Workers :
        /\ Succeeded(w, "WriteFile") => decoder[w].closes >= 1
        /\ ops[w].closes >= 1 => decoder[w].closes >= 1

\* C3 (amended): in every successful invocation the decoder is released
\* only after the output was written and after the ImageOps was released,
\* and before the invocation signals its completion.
C3_DecoderReleasedLast ==
    \A w \in Workers :
        Succeeded(w, "WriteFile") =>
            /\ decoder[w].closes >= 1 => ops[w].closes >= 1
            /\ Precedes(w, "WriteFile", "decoder.Close")
            /\ Precedes(w, "ops.Close", "decoder.Close")
            /\ Precedes(w, "decoder.Close", "wg.Done")
            /\ Happened(w, "wg.Done") => decoder[w].closes = 1
            /\ pc[w] = "done" => ~decoder[w].open /\ ~ops[w].open

\* A goroutine wrote its output and then released ImageOps and decoder.
C3_Witness ==
    \E w \in Workers :
        /\ pc[w] = "done"
        /\ Succeeded(w, "WriteFile")
        /\ decoder[w].closes = 1
        /\ ops[w].closes = 1

\* C4: with neither -input nor -remoteInput the invocation reports the usage
\* error and returns: it reads no file, fetches nothing, detects nothing,
\* transforms nothing and writes nothing.
C4_UsageErrorNoIO ==
    (inputFilename = EmptyString /\ remoteInput = EmptyString) =>
        \A w \in Workers :
            /\ \A k \in 1 .. Len(log[w]) : log[w][k][1] \in {"usage", "wg.Done"}
            /\ pc[w] \notin {"unspawned", "L52"} =>
                  /\ Failed(w, "usage")
                  /\ pc[w] \in {"return", "done"}
            /\ inputBuf[w] = NoBytes
            /\ decoder[w] = NoDecoder
            /\ written[w] = EmptyString
            /\ files \in PreExisting(outputFilename)

\* Every goroutine of a run without input has ended on the usage error.
C4_Witness ==
    /\ inputFilename = EmptyString
    /\ remoteInput = EmptyString
    /\ runs = MaxRuns
    /\ \A w \in Workers : pc[w] = "done" /\ Failed(w, "usage")

\* A response whose status is outside 200..299.
NonSuccess(r) == r.status # 0 /\ (r.status < 200 \/ r.status > 299)

\* C5 as stated: a response with a non-success status and no transport error
\* makes the acquisition fail, and NewDecoder is never called on its body.
C5_Claim ==
    \A w \in Workers :
        (NonSuccess(resp[w]) /\ Succeeded(w, "Get")) =>
            /\ ~Succeeded(w, "readRemoteURL")
            /\ ~Happened(w, "NewDecoder")

\* C6: when readRemoteURL has returned, the body of the response has been
\* closed exactly once if a response existed and not at all if none did; it
\* is never closed twice.
C6_BodyClosedOnce ==
    \A w \in Workers :
        /\ resp[w].closes <= 1
        /\ resp[w].closes = Cardinality(Pos(w, "Body.Close"))
        /\ Happened(w, "readRemoteURL") =>
              /\ resp[w].closes = (IF resp[w].status # 0 THEN 1 ELSE 0)
              /\ Precedes(w, "Body.Close", "readRemoteURL")

\* A response that came together with an error was closed, and so was one
\* whose body could not be read; a failed Get without response closed nothing.
C6_Witness ==
    \E w, v \in Workers :
        /\ Happened(w, "readRemoteURL") /\ Happened(v, "readRemoteURL")
        /\ resp[w].status # 0 /\ rerr[w] = "redirect" /\ resp[w].closes = 1
        /\ \/ rerr[v] = "read" /\ resp[v].closes = 1
           \/ resp[v].status = 0 /\ resp[v].closes = 0

\* The package-level variables resize assigns.
SharedVariables == {"outputWidth", "outputHeight"}

\* C7 as stated: no goroutine writes a variable that another goroutine
\* reads or writes.
C7_Claim ==
    \A x \in SharedVariables :
        \A w \in writers[x] : (readers[x] \cup writers[x]) \subseteq {w}

\* The geometry goroutine w should hand to Transform.
Requested(flag, source) == IF flag = 0 THEN source ELSE flag

\* C8 as stated: the geometry handed to Transform has the source width when
\* -width was 0 and the requested width otherwise, likewise for the height.
C8_Claim ==
    \A w \in Workers :
        Happened(w, "Transform") =>
            /\ opts[w].Width = Requested(flagWidth, header[w].width)
            /\ opts[w].Height = Requested(flagHeight, header[w].height)

\* The scenario of C9 has reached Transform in goroutine w.
C9_Case(w) ==
    /\ Happened(w, "Transform")
    /\ header[w] = [width |-> 4000, height |-> 3000]
    /\ flagWidth = 800
    /\ flagHeight = 0
    /\ ~stretch

\* C9 as stated: a 4000x3000 source with -width 800 -height 0 and Fit is
\* handed to Transform with the geometry 800x600.
C9_Original ==
    \A w \in Workers :
        C9_Case(w) => opts[w].Width = 800 /\ opts[w].Height = 600

\* C9 (amended): for a 4000x3000 source with -width 800 -height 0 and Fit
\* the geometry handed to Transform is 800 wide and as high as the header of
\* one of the run's goroutines says, 800x3000 when the goroutine runs alone:
\* the height is never scaled to keep the aspect ratio.
C9_SourceHeight ==
    \A w \in Workers :
        C9_Case(w) =>
            /\ opts[w].Width = 800
            /\ opts[w].ResizeMethod = "ImageOpsFit"
            /\ opts[w].Height \in {header[v].height : v \in {u \in Workers : Succeeded(u, "Header")}}
            /\ runs = 1 => opts[w].Height = 3000

\* The scenario reached Transform, which was handed 800x3000.
C9_Witness ==
    \E w \in Workers :
        /\ C9_Case(w)
        /\ Succeeded(w, "Transform")
        /\ opts[w].Width = 800
        /\ opts[w].Height = 3000

\* C10: when -width and -height are both non-zero the geometry handed to
\* Transform is exactly that, whatever the source and the policy; and the
\* resize method is the stretching one exactly when -stretch is set.
C10_ExactGeometry ==
    \A w \in Workers :
        Happened(w, "Transform") =>
            /\ (flagWidth # 0 /\ flagHeight # 0) =>
                  opts[w].Width = flagWidth /\ opts[w].Height = flagHeight
            /\ opts[w].ResizeMethod = "ImageOpsResize" <=> stretch
            /\ opts[w].ResizeMethod = "ImageOpsFit" <=> ~stretch

\* A 500x500 source with -width 300 -height 600 and Fit went to Transform
\* as 300x600.
C10_Witness ==
    \E w \in Workers :
        /\ Succeeded(w, "Transform")
        /\ header[w] = [width |-> 500, height |-> 500]
        /\ flagWidth = 300 /\ flagHeight = 600 /\ ~stretch
        /\ opts[w].Width = 300 /\ opts[w].Height = 600
        /\ opts[w].ResizeMethod = "ImageOpsFit"


\* C11 as stated: Transform is never invoked with a target width or height
\* above the maximum intermediate dimension; such a request has failed
\* before the transform step.
C11_Claim ==
    \A w \in Workers :
        Happened(w, "Transform") =>
            /\ opts[w].Width <= MaxDimension
            /\ opts[w].Height <= MaxDimension


\* C12 as stated: without -output the output type handed to Transform is
\* the detected format of the input, lower-cased after a dot; with -output
\* it is the extension of that path.
C12_Claim ==
    \A w \in Workers :
        Happened(w, "Transform") =>
            opts[w].FileType =
                (IF outputFilename = EmptyString
                 THEN <<".">> \o ToLower(decoder[w].blob.desc)
                 ELSE Ext(outputFilename))


\* C13: the options handed to Transform are the entry of the fixed table
\* for the output type (.jpeg quality 85, .png compression 7, .webp quality
\* 85), the empty set for a type the table does not hold; and no invocation
\* changes the table.
C13_EncodeOptionsSelected ==
    /\ DOMAIN EncodeOptions =
          {<<".", "j", "p", "e", "g">>, <<".", "p", "n", "g">>, <<".", "w", "e", "b", "p">>}
    /\ EncodeOptions[<<".", "j", "p", "e", "g">>] = {<<"JpegQuality", 85>>}
    /\ EncodeOptions[<<".", "p", "n", "g">>] = {<<"PngCompression", 7>>}
    /\ EncodeOptions[<<".", "w", "e", "b", "p">>] = {<<"WebpQuality", 85>>}
    /\ \A w \in Workers :
          Happened(w, "Transform") =>
              /\ opts[w].FileType \in DOMAIN EncodeOptions =>
                    opts[w].EncodeOptions = EncodeOptions[opts[w].FileType]
              /\ opts[w].FileType \notin DOMAIN EncodeOptions =>
                    opts[w].EncodeOptions = {}

\* One run handed the .png entry to Transform, for an output named o.png.
C13_Witness ==
    \E w \in Workers :
        /\ Succeeded(w, "Transform")
        /\ opts[w].FileType = <<".", "p", "n", "g">>
        /\ opts[w].EncodeOptions = {<<"PngCompression", 7>>}


\* C14: the scratch buffer is sized from the fixed 8192 and the output
\* buffer is 50MB in every invocation that allocates them, whatever the
\* header and the requested geometry are; and neither is allocated in an
\* invocation whose detection or header read failed.
C14_FixedBuffers ==
    \A w \in Workers :
        /\ ops[w].size \in {0, 8192}
        /\ outputImg[w] \in {0, 50 * 1024 * 1024}
        /\ Happened(w, "NewImageOps") <=> ops[w].size = 8192
        /\ Happened(w, "NewImageOps") <=> outputImg[w] = 50 * 1024 * 1024
        /\ Happened(w, "NewImageOps") =>
              Succeeded(w, "NewDecoder") /\ Succeeded(w, "Header")
        /\ (Failed(w, "NewDecoder") \/ Failed(w, "Header")) =>
              /\ ops[w] = NoImageOps
              /\ outputImg[w] = 0

\* The buffers were allocated at their fixed sizes for a 4000x3000 source
\* and a requested width of 9000; another goroutine's header read failed.
C14_Witness ==
    \E w, v \in Workers :
        /\ header[w] = [width |-> 4000, height |-> 3000]
        /\ flagWidth = 9000
        /\ ops[w].size = 8192
        /\ outputImg[w] = 50 * 1024 * 1024
        /\ pc[v] = "done" /\ Failed(v, "Header") /\ ops[v] = NoImageOps


\* C15: an invocation that finds its destination existing returns without
\* writing; a write is only ever made by an invocation whose existence test
\* found no file, so a file that existed at the test is not overwritten.
C15_NoOverwrite ==
    \A w \in Workers :
        /\ Failed(w, "Stat") =>
              /\ ~Happened(w, "WriteFile")
              /\ written[w] = EmptyString
              /\ pc[w] \in {"return", "done"}
              /\ outFilename[w] \in files
        /\ Happened(w, "WriteFile") =>
              /\ Succeeded(w, "Stat")
              /\ Precedes(w, "Stat", "WriteFile")
        /\ Cardinality(Pos(w, "Stat")) <= 1

\* Goroutine 0 found its destination existing and ended without a write.
C15_Witness ==
    \E w \in Workers :
        /\ pc[w] = "done"
        /\ Succeeded(w, "Transform")
        /\ Failed(w, "Stat")
        /\ outFilename[w] \in files
        /\ written[w] = EmptyString


Signalled == {w \in Workers : Happened(w, "wg.Done")}

C16_Counting ==
    /\ mainI <= runs
    /\ \A w \in Workers : pc[w] # "unspawned" <=> w < mainI
    /\ mainPc \in {"L48", "returned"} => mainI = runs
    /\ \A w \in Workers :
          /\ Cardinality(Pos(w, "wg.Done")) <= 1
          /\ pc[w] = "done" => Cardinality(Pos(w, "wg.Done")) = 1
    /\ wg >= 0
    /\ wg = mainI + (IF mainPc = "L46" THEN 1 ELSE 0) - Cardinality(Signalled)
    /\ mainPc = "returned" => \A w \in Workers : w < runs => pc[w] = "done"

\* C16: main spawns exactly `runs` goroutines and passes wg.Wait only when
\* every one of them has finished; a goroutine signals wg.Done exactly once
\* on each of its exit paths; the counter is never negative; and under fair
\* scheduling main eventually returns.
C16_Barrier == [](C16_Counting) /\ <>(mainPc = "returned")

\* main has returned from a run of MaxRuns goroutines of which one ended on
\* a failed detection and one wrote its output.
C16_Witness ==
    /\ mainPc = "returned"
    /\ runs = MaxRuns
    /\ \E w, v \in Workers :
          /\ Failed(w, "NewDecoder") /\ Cardinality(Pos(w, "wg.Done")) = 1
          /\ Succeeded(v, "WriteFile") /\ Cardinality(Pos(v, "wg.Done")) = 1


\* C17 as stated: without -output the file a successful invocation writes
\* is named "resized" followed by the extension of the input filename.
C17_Claim ==
    \A w \in Workers :
        (outputFilename = EmptyString /\ Succeeded(w, "WriteFile")) =>
            written[w] = <<"r", "e", "s", "i", "z", "e", "d">> \o Ext(inputFilename)


\* C18: when main has passed wg.Wait no goroutine holds a resource: every
\* decoder and every ImageOps that was opened has been closed, because a
\* goroutine closes its ImageOps, then its decoder, and only then calls
\* wg.Done.
C18_NothingHeldAtBarrier ==
    /\ mainPc = "returned" =>
          \A w \in Workers :
              /\ ~decoder[w].open
              /\ ~ops[w].open
              /\ Succeeded(w, "NewDecoder") => decoder[w].closes = 1
              /\ Happened(w, "NewImageOps") => ops[w].closes = 1
    /\ \A w \in Workers :
          /\ Precedes(w, "ops.Close", "decoder.Close")
          /\ Precedes(w, "decoder.Close", "wg.Done")
          /\ Precedes(w, "ops.Close", "wg.Done")
          /\ Happened(w, "wg.Done") => ~decoder[w].open /\ ~ops[w].open

\* main has returned from a run in which a goroutine had opened a decoder
\* and an ImageOps.
C18_Witness ==
    /\ mainPc = "returned"
    /\ \E w \in Workers :
          /\ Happened(w, "NewImageOps")
          /\ decoder[w].closes = 1
          /\ ops[w].closes = 1


\* C19: goroutines with different indices use different destination names,
\* so no two of them test or write the same file.
C19_DistinctDestinations ==
    \A w, v \in Workers :
        (w # v /\ pc[w] \notin {"unspawned", "L52"} /\ pc[v] \notin {"unspawned", "L52"}) =>
            /\ outFilename[w] # outFilename[v]
            /\ outFilename[w] = Sprint(w, <<"-">>, outputFilename)
            /\ (written[w] # EmptyString /\ written[v] # EmptyString) =>
                  written[w] # written[v]
            /\ written[w] \in {EmptyString, outFilename[w]}

\* Two goroutines have each written their own file.
C19_Witness ==
    \E w, v \in Workers :
        /\ w # v
        /\ Succeeded(w, "WriteFile")
        /\ Succeeded(v, "WriteFile")
        /\ written[w] # written[v]
        /\ {written[w], written[v]} \subseteq files


\* C20: an invocation acquires its input at most once: with both -input and
\* -remoteInput it reads the local file and fetches nothing, and a failed
\* local read is not followed by a fetch of the remote URL.
C20_SingleAcquisition ==
    \A w \in Workers :
        /\ Cardinality(Pos(w, "ReadFile")) + Cardinality(Pos(w, "Get")) <= 1
        /\ inputFilename # EmptyString =>
              /\ ~Happened(w, "Get")
              /\ ~Happened(w, "readRemoteURL")
              /\ resp[w] = NoResponse
        /\ Failed(w, "ReadFile") =>
              /\ pc[w] \in {"return", "done"}
              /\ inputBuf[w] = NoBytes

\* With both flags given a goroutine has read the local file, or failed to,
\* and ended without a fetch of the URL.
C20_Witness ==
    /\ inputFilename # EmptyString
    /\ remoteInput # EmptyString
    /\ \E w \in Workers :
          /\ pc[w] = "done"
          /\ Happened(w, "ReadFile")
          /\ ~Happened(w, "Get")

====
